---- MODULE Spec2Model ----
(***************************************************************************)
(* GossipBot (src/index.js): a TCP broadcast relay driven by chat          *)
(* commands.  The model follows the Node.js event loop: every handler of   *)
(* index.js is one action; the callbacks the runtime defers with           *)
(* process.nextTick (the 'listening' and 'close' events of the net.Server, *)
(* the 'resume' event of a socket) sit in the queue `ticks`, which drains  *)
(* before any other event is dispatched.                                   *)
(***************************************************************************)
EXTENDS Integers, Sequences, FiniteSets, TLC

(* ------------------------------ bounds --------------------------------- *)
\* how many connections the relay accepts in one run (listenerID never exceeds it)
MaxConn == 2

(* --------------------------- program constants ------------------------- *)
\* process.env.LISTENERPORT
listenerPort == 9000

NL == "\n"
Users == {"u", "v"}
Channels == {"c"}
\* who speaks in a channel the bot listens to: anybody, authenticated or not
Speakers == {"v"}

VARIABLES
    listenerID,          \* let listenerID = 0
    listeners,           \* const listeners = {} : nickname number -> socket.status
    transport,           \* runtime: state of each accepted socket's transport
    netServer,           \* netServer.status / netServer.port
    handle,              \* runtime: the listening handle of netServer
    closeCbs,            \* runtime: callbacks registered on netServer's 'close' event
    ticks,               \* runtime: process.nextTick queue
    authenticatedUsers,  \* controller.authenticatedUsers
    convos,              \* users with an open "What's the password?" conversation
    crashed,             \* an uncaught exception ended the process
    replies,             \* bot.reply texts produced since the last event began
    writes,              \* socket.write calls of the last broadcast, per connection
    payload,             \* the message handed to the last broadcast
    lastOp,              \* the last event handled: which command, or "event" (history)
    prevOp,              \* the bulk command right before a broadcast or end-all (history)
    closeReq,            \* kind of the close request in effect (history)
    missed,              \* connections that were paused during a broadcast (history)
    disconnectLog        \* the disconnect message console.log printed in the last event

vars == <<listenerID, listeners, transport, netServer, handle, closeCbs, ticks,
          authenticatedUsers, convos, crashed, replies, writes, payload,
          lastOp, prevOp, closeReq, missed, disconnectLog>>

(* ------------------------------ texts ---------------------------------- *)
\* message texts: empty, one line, a line break last, first and doubled, two lines
Texts == {<<>>, <<"a">>, <<"a", NL>>, <<NL, "a">>, <<NL, NL>>, <<"a", NL, "b">>}

\* a reply or a line of a reply: its fixed text, and the number and the word
\* the template string interpolates (0 and "" when it has none)
R(text) == [text |-> text, num |-> 0, str |-> ""]
RN(text, n) == [text |-> text, num |-> n, str |-> ""]
RS(text, s) == [text |-> text, num |-> 0, str |-> s]
RNS(text, n, s) == [text |-> text, num |-> n, str |-> s]

NotAuthenticatedMsg == R("You'll need to be authenticated first. type 'authenticate' to continue")

NoWrites == [c \in {} |-> <<>>]
NoPayload == [kind |-> "none", channel |-> "", user |-> "", text |-> <<>>]

Op(name, ok, n) == [name |-> name, ok |-> ok, n |-> n]
OtherOp == Op("other", TRUE, 0)
\* what prevOp remembers of the event before a broadcast or an end-all: the
\* bulk command that ran, nothing else
Remember(name, op) ==
    IF /\ name \in {"Broadcast", "EndAll"}
       /\ op.ok /\ op.name \in {"PauseAll", "ResumeAll", "EndAll"}
    THEN op ELSE OtherOp

\* console.log(`${clientName} has disconnected abruptly`) and
\* console.log(`${clientName} has disconnected gracefully`)
Disconnect(id, how) == [id |-> id, how |-> how]
NoDisconnect == Disconnect(0, "none")

Tick(type, id) == [type |-> type, id |-> id]

(* ------------------------------ runtime -------------------------------- *)
\* net.Server counts a socket from its accept until its transport is torn down
Connections(tr) == Cardinality({c \in DOMAIN tr : tr[c] \in {"open", "ended"}})

\* net.Server emits 'close' (on the next tick) once it has no handle and no
\* connection left
EmitCloseIfDrained(h, conns, tk) ==
    IF h = "none" /\ conns = 0 THEN Append(tk, Tick("serverClose", 0)) ELSE tk

\* an event loop that dispatches events while deferred callbacks are pending
ReadyEarly == ~crashed

\* no deferred callback is pending and the process is alive: the event loop
\* may dispatch the next event
Ready == ~crashed /\ ticks = <<>>

Keys == DOMAIN listeners

Init ==
    /\ listenerID = 0
    /\ listeners = [c \in {} |-> "running"]
    /\ transport = [c \in {} |-> "open"]
    /\ netServer = [status |-> "undefined", port |-> 0]
    /\ handle = "bound"
    /\ closeCbs = 0
    /\ ticks = <<Tick("listening", 0)>>
    \* the lines of the file .users: user u authenticated in an earlier run
    /\ authenticatedUsers = {"u", ""}
    /\ convos = {}
    /\ crashed = FALSE
    /\ replies = <<>>
    /\ writes = NoWrites
    /\ payload = NoPayload
    /\ lastOp = OtherOp
    /\ prevOp = OtherOp
    /\ closeReq = "none"
    /\ missed = {}
    /\ disconnectLog = NoDisconnect

\* an event that is not a broadcast: no socket.write
Silent == writes' = NoWrites /\ payload' = NoPayload
Quiet == Silent /\ missed' = missed /\ disconnectLog' = NoDisconnect
Hist(name, ok, n) == lastOp' = Op(name, ok, n) /\ prevOp' = Remember(name, lastOp)

(* --------------------- deferred callbacks (nextTick) ------------------- *)
\* .listen(listenerPort, function () {...}) at start-up
OnListening ==
    /\ ~crashed /\ ticks # <<>> /\ Head(ticks).type = "listening"
    /\ netServer' = [status |-> "listening", port |-> listenerPort]
    /\ ticks' = Tail(ticks)
    /\ UNCHANGED <<listenerID, listeners, transport, handle, closeCbs,
                   authenticatedUsers, convos, crashed, replies, writes, payload,
                   lastOp, prevOp, closeReq, missed, disconnectLog>>

\* netServer.listen(listenerPort, function(){...}) of open-server
OnOpened ==
    /\ ~crashed /\ ticks # <<>> /\ Head(ticks).type = "opened"
    /\ replies' = Append(replies, <<R("Server Successfully opened")>>)
    /\ netServer' = [netServer EXCEPT !.status = "listening"]
    /\ closeReq' = "none"
    /\ ticks' = Tail(ticks)
    /\ UNCHANGED <<listenerID, listeners, transport, handle, closeCbs,
                   authenticatedUsers, convos, crashed, writes, payload,
                   lastOp, prevOp, missed, disconnectLog>>

\* the listener could not bind (the port was taken meanwhile): netServer emits
\* 'error', which has no listener, so the exception is uncaught
OnBindError ==
    /\ ~crashed /\ ticks # <<>> /\ Head(ticks).type = "bindError"
    /\ crashed' = TRUE
    /\ ticks' = Tail(ticks)
    /\ UNCHANGED <<listenerID, listeners, transport, netServer, handle, closeCbs,
                   authenticatedUsers, convos, replies, writes, payload,
                   lastOp, prevOp, closeReq, missed, disconnectLog>>

\* one "Server Successfully closed" per callback registered with netServer.close
RECURSIVE ClosedReplies(_)
ClosedReplies(n) ==
    IF n = 0 THEN <<>> ELSE <<<<R("Server Successfully closed")>>>> \o ClosedReplies(n - 1)

\* netServer.close(function(){...}) of close-server: the server's 'close' event
OnServerClose ==
    /\ ~crashed /\ ticks # <<>> /\ Head(ticks).type = "serverClose"
    /\ replies' = replies \o ClosedReplies(closeCbs)
    /\ netServer' = IF closeCbs > 0 THEN [netServer EXCEPT !.status = "closed"] ELSE netServer
    /\ closeCbs' = 0
    /\ ticks' = Tail(ticks)
    /\ UNCHANGED <<listenerID, listeners, transport, handle,
                   authenticatedUsers, convos, crashed, writes, payload,
                   lastOp, prevOp, closeReq, missed, disconnectLog>>

\* socket.on('resume', ...)
OnResume ==
    /\ ~crashed /\ ticks # <<>> /\ Head(ticks).type = "resume"
    /\ listeners' = IF Head(ticks).id \in Keys
                    THEN [listeners EXCEPT ![Head(ticks).id] = "running"]
                    ELSE listeners
    /\ ticks' = Tail(ticks)
    /\ UNCHANGED <<listenerID, transport, netServer, handle, closeCbs,
                   authenticatedUsers, convos, crashed, replies, writes, payload,
                   lastOp, prevOp, closeReq, missed, disconnectLog>>

(* --------------------------- socket events ----------------------------- *)
\* a counter that is read and not advanced
nextListenerIDStuck(id) == id

\* listenerID++ : the value listenerID has after socket.nickname took the old one
nextListenerID(id) == id + 1

\* net.createServer(function(socket) {...}): a client connects
Accept ==
    /\ Ready /\ handle = "bound" /\ listenerID < MaxConn
    /\ listenerID' = nextListenerID(listenerID)
    /\ listeners' = [c \in Keys \cup {listenerID} |->
                        IF c = listenerID THEN "running" ELSE listeners[c]]
    /\ transport' = [c \in DOMAIN transport \cup {listenerID} |->
                        IF c = listenerID THEN "open" ELSE transport[c]]
    /\ replies' = <<>>
    /\ Quiet /\ Hist("event", TRUE, 0)
    /\ UNCHANGED <<netServer, handle, closeCbs, ticks, authenticatedUsers, convos,
                   crashed, closeReq>>

\* the runtime tears the transport of socket c down; `phase` tells how
Teardown(c, phase) ==
    /\ transport' = [transport EXCEPT ![c] = phase]
    /\ ticks' = EmitCloseIfDrained(handle, Connections(transport'), ticks)

\* socket.on('error', ...): the transport failed; its 'close' event follows
SocketError(c) ==
    /\ Ready /\ c \in DOMAIN transport /\ transport[c] \in {"open", "ended"}
    /\ Teardown(c, "errored")
    /\ replies' = <<>>
    /\ Silent /\ missed' = missed
    /\ disconnectLog' = Disconnect(c, "abruptly")
    /\ Hist("event", TRUE, 0)
    /\ UNCHANGED <<listenerID, listeners, netServer, handle, closeCbs,
                   authenticatedUsers, convos, crashed, closeReq>>

\* the peer closes its end and the socket finishes cleanly: no listener of
\* index.js runs yet, the 'close' event follows
PeerClose(c) ==
    /\ Ready /\ c \in DOMAIN transport /\ transport[c] \in {"open", "ended"}
    /\ Teardown(c, "finished")
    /\ replies' = <<>>
    /\ Quiet /\ Hist("event", TRUE, 0)
    /\ UNCHANGED <<listenerID, listeners, netServer, handle, closeCbs,
                   authenticatedUsers, convos, crashed, closeReq>>

\* socket.addListener("close", ...)
SocketClose(c) ==
    /\ Ready /\ c \in DOMAIN transport /\ transport[c] \in {"errored", "finished"}
    /\ transport' = [transport EXCEPT ![c] = "closed"]
    /\ listeners' = [k \in Keys \ {c} |-> listeners[k]]
    /\ replies' = <<>>
    /\ Silent /\ missed' = missed \ {c}
    /\ disconnectLog' = Disconnect(c, "gracefully")
    /\ Hist("event", TRUE, 0)
    /\ UNCHANGED <<listenerID, netServer, handle, closeCbs, ticks,
                   authenticatedUsers, convos, crashed, closeReq>>

(* ------------------------------ broadcast ------------------------------ *)
\* String.prototype.split("\n")
RECURSIVE split(_)
split(s) ==
    IF s = <<>> THEN << <<>> >>
    ELSE IF Head(s) = NL THEN << <<>> >> \o split(Tail(s))
    ELSE LET rest == split(Tail(s))
         IN <<<<Head(s)>> \o Head(rest)>> \o Tail(rest)

\* a `send` that does not cut the text of a structured message into lines
sendUnsplit(message) ==
    IF message.kind = "string" THEN split(message.text)
    ELSE IF message.kind = "object"
    THEN <<<<message.channel, ",", message.user, ",">> \o message.text>>
    ELSE <<>>

\* the array `send` of netServer.broadcast
send(message) ==
    IF message.kind = "string" THEN split(message.text)
    ELSE IF message.kind = "object"
    THEN LET lines == split(message.text)
         IN [i \in 1..Len(lines) |->
                <<message.channel, ",", message.user, ",">> \o lines[i]]
    ELSE <<>>

\* send.forEach(line => socket.write(line+'\n')) on one socket
RECURSIVE writeAll(_, _)
writeAll(written, lines) ==
    IF lines = <<>> THEN written
    ELSE writeAll(Append(written, Head(lines) \o <<NL>>), Tail(lines))

receivesAll(status) == TRUE

\* whether the fan-out loop of netServer.broadcast writes to a socket
receives(status) == status = "running"

\* a fan-out that writes to every key, whatever its status
broadcastToAll(message) ==
    /\ writes' = [c \in Keys |-> writeAll(<<>>, send(message))]
    /\ payload' = message
    /\ missed' = missed \cup {c \in Keys : ~receives(listeners[c])}
    /\ disconnectLog' = NoDisconnect

\* netServer.broadcast(message)
broadcast(message) ==
    /\ writes' = [c \in Keys |->
                    IF receives(listeners[c]) THEN writeAll(<<>>, send(message)) ELSE <<>>]
    /\ payload' = message
    \* history: the connections this broadcast passes over
    /\ missed' = missed \cup {c \in Keys : ~receives(listeners[c])}
    /\ disconnectLog' = NoDisconnect

\* controller.hears(['.*'], ['ambient'], ...)
Ambient(ch, u, text) ==
    /\ Ready
    /\ broadcast([kind |-> "object", channel |-> ch, user |-> u, text |-> text])
    /\ replies' = <<>>
    /\ Hist("Broadcast", TRUE, 0)
    /\ UNCHANGED <<listenerID, listeners, transport, netServer, handle, closeCbs, ticks,
                   authenticatedUsers, convos, crashed, closeReq>>

\* netServer.broadcast called with a plain string
BroadcastText(text) ==
    /\ Ready
    /\ broadcast([kind |-> "string", channel |-> "", user |-> "", text |-> text])
    /\ replies' = <<>>
    /\ Hist("Broadcast", TRUE, 0)
    /\ UNCHANGED <<listenerID, listeners, transport, netServer, handle, closeCbs, ticks,
                   authenticatedUsers, convos, crashed, closeReq>>

(* ------------------------- command gateway ----------------------------- *)
\* controller.isAuthenticated(user)
isAuthenticated(user) == user \in authenticatedUsers

\* the else branch of controller.authenticatedTask: a refusal, nothing else
Refuse(name) ==
    /\ replies' = <<<<NotAuthenticatedMsg>>>>
    /\ Quiet /\ Hist(name, FALSE, 0)
    /\ UNCHANGED <<listenerID, listeners, transport, netServer, handle, closeCbs, ticks,
                   authenticatedUsers, convos, crashed, closeReq>>

authenticatedTaskUngated(user, name, task) == task

\* controller.authenticatedTask(bot, message, task)
authenticatedTask(user, name, task) ==
    IF isAuthenticated(user) THEN task ELSE Refuse(name)

\* Object.keys(listeners): insertion order, which is the order of the ids
RECURSIVE ObjectKeys(_)
ObjectKeys(S) ==
    IF S = {} THEN <<>>
    ELSE LET m == CHOOSE x \in S : \A y \in S : x <= y
         IN <<m>> \o ObjectKeys(S \ {m})

\* outMessage of the status handler, line by line
StatusText ==
    LET users == ObjectKeys(Keys)
    IN <<RN("Listener Port: ", netServer.port),
         RS("Server Status: ", netServer.status),
         RN("Current Connections: ", Len(users))>>
       \o [i \in 1..Len(users) |-> RNS("net# is", users[i], listeners[users[i]])]

StatusTask ==
    /\ replies' = <<StatusText>>
    /\ Quiet /\ Hist("Status", TRUE, 0)
    /\ UNCHANGED <<listenerID, listeners, transport, netServer, handle, closeCbs, ticks,
                   authenticatedUsers, convos, crashed, closeReq>>

\* controller.hears(controller.commands.status.commandList, ...)
Status(u) == Ready /\ authenticatedTask(u, "Status", StatusTask)

endSkipped(phase) == phase

\* socket.end(): the writable side is finished; the transport stays up until
\* the peer closes as well
end(phase) == IF phase = "open" THEN "ended" ELSE phase

EndAllTask ==
    /\ transport' = [c \in DOMAIN transport |->
                        IF c \in Keys THEN end(transport[c]) ELSE transport[c]]
    /\ replies' = <<<<RN("Clients Terminated: ", Cardinality(Keys))>>>>
    /\ Quiet /\ Hist("EndAll", TRUE, Cardinality(Keys))
    /\ UNCHANGED <<listenerID, listeners, netServer, handle, closeCbs, ticks,
                   authenticatedUsers, convos, crashed, closeReq>>

\* controller.hears(controller.commands.endAll.commandList, ...)
EndAll(u) == Ready /\ authenticatedTask(u, "EndAll", EndAllTask)

pauseForgets(status) == status

\* socket.pause() emits 'pause' at once: socket.on('pause', ...) sets the status
pause(status) == IF status = "running" THEN "paused" ELSE status

PauseAllTask ==
    /\ listeners' = [c \in Keys |-> pause(listeners[c])]
    /\ replies' = <<<<RN("Clients Paused: ", Cardinality(Keys))>>>>
    /\ Quiet /\ Hist("PauseAll", TRUE, Cardinality(Keys))
    /\ UNCHANGED <<listenerID, transport, netServer, handle, closeCbs, ticks,
                   authenticatedUsers, convos, crashed, closeReq>>

\* controller.hears(controller.commands.pauseAll.commandList, ...)
PauseAll(u) == Ready /\ authenticatedTask(u, "PauseAll", PauseAllTask)

\* socket.resume() emits 'resume' on the next tick, one per paused socket
RECURSIVE resumeTicks(_)
resumeTicks(users) ==
    IF users = <<>> THEN <<>>
    ELSE (IF listeners[Head(users)] = "paused" THEN <<Tick("resume", Head(users))>> ELSE <<>>)
         \o resumeTicks(Tail(users))

ResumeAllTask ==
    /\ ticks' = ticks \o resumeTicks(ObjectKeys(Keys))
    /\ replies' = <<<<RN("Clients Resumed: ", Len(resumeTicks(ObjectKeys(Keys))))>>>>
    /\ Quiet /\ Hist("ResumeAll", TRUE, Len(resumeTicks(ObjectKeys(Keys))))
    /\ UNCHANGED <<listenerID, listeners, transport, netServer, handle, closeCbs,
                   authenticatedUsers, convos, crashed, closeReq>>

\* controller.hears(controller.commands.resumeAll.commandList, ...)
ResumeAll(u) == Ready /\ authenticatedTask(u, "ResumeAll", ResumeAllTask)

hasListenersNever == FALSE

hasListenersAlways == TRUE

\* if(Object.keys(listeners).length > 0) of close-server
hasListeners == Cardinality(Keys) > 0

serverCloseSkipped(h) == h

\* netServer.close(): the listening handle is released at once, so that no
\* further connection is accepted
serverClose(h) == "none"

CloseServerTask ==
    /\ IF netServer.status = "listening"
       THEN /\ IF hasListeners
               THEN /\ netServer' = [netServer EXCEPT !.status = "closing"]
                    /\ replies' = << <<R("Attempting to Close Server")>>,
                                     <<R("Server will remain open until all listeners disconnect")>>,
                                     <<R("Hint: telling me to 'end-all' should end it now")>> >>
               ELSE /\ netServer' = netServer
                    /\ replies' = <<>>
            \* history: how many connections were registered at the request
            /\ closeReq' = IF Keys # {} THEN "some" ELSE "zero"
            \* netServer.close(callback)
            /\ closeCbs' = closeCbs + 1
            /\ handle' = serverClose(handle)
            /\ ticks' = EmitCloseIfDrained(handle', Connections(transport), ticks)
       ELSE /\ replies' =
                 IF netServer.status = "closed"
                 THEN << <<R("Can't close a closed Server")>> >>
                 ELSE IF netServer.status = "closing"
                 THEN << <<R("Server is already closing.  It will close after all listeners disconnect.")>>,
                         <<R("Hint: you can tell me to 'end-all' to close all the listeners")>> >>
                 ELSE << <<RS("Server in a weird state: ", netServer.status)>> >>
            /\ UNCHANGED <<netServer, closeCbs, handle, ticks, closeReq>>
    /\ Quiet /\ Hist("CloseServer", TRUE, 0)
    /\ UNCHANGED <<listenerID, listeners, transport, authenticatedUsers, convos, crashed>>

\* controller.hears(controller.commands.closeServer.commandList, ...)
CloseServer(u) == Ready /\ authenticatedTask(u, "CloseServer", CloseServerTask)

\* bindOk: whether the operating system lets the listener bind the port again
canOpenUnlessListening == netServer.status # "listening"

\* an open-server that also listens again while the server is closing
canOpenWhileClosing == netServer.status \in {"closed", "closing"}

\* if(netServer.status === 'closed') of open-server
canOpen == netServer.status = "closed"

OpenServerTask(bindOk) ==
    /\ IF canOpen
       THEN \* netServer.listen(listenerPort, callback)
            /\ handle' = IF bindOk THEN "bound" ELSE handle
            /\ ticks' = Append(ticks, Tick(IF bindOk THEN "opened" ELSE "bindError", 0))
            /\ replies' = <<>>
       ELSE /\ replies' =
                 IF netServer.status = "listening"
                 THEN << <<R("Can't open an open Server")>> >>
                 ELSE IF netServer.status = "closing"
                 THEN << <<R("Server is currently closing.  It will close after all listeners disconnect.")>>,
                         <<R("Hint: you can tell me to 'end-all' to close all the listeners and then 'open-server' to open properly")>> >>
                 ELSE << <<RS("Server in a weird state: ", netServer.status)>> >>
            /\ UNCHANGED <<handle, ticks>>
    /\ Quiet /\ Hist("OpenServer", TRUE, 0)
    /\ UNCHANGED <<listenerID, listeners, transport, netServer, closeCbs,
                   authenticatedUsers, convos, crashed, closeReq>>

\* controller.hears(controller.commands.openServer.commandList, ...)
OpenServer(u, bindOk) == Ready /\ authenticatedTask(u, "OpenServer", OpenServerTask(bindOk))

\* controller.hears(controller.commands.authenticate.commandList, ...)
Authenticate(u) ==
    /\ Ready
    /\ IF ~isAuthenticated(u)
       THEN /\ convos' = convos \cup {u}
            /\ replies' = << <<R("What's the password?")>> >>
       ELSE /\ convos' = convos
            /\ replies' = << <<R("You're already authenticated!")>> >>
    /\ Quiet /\ Hist("event", TRUE, 0)
    /\ UNCHANGED <<listenerID, listeners, transport, netServer, handle, closeCbs, ticks,
                   authenticatedUsers, crashed, closeReq>>

\* the callbacks of convo.addQuestion("What's the password?", ...)
Password(u, good) ==
    /\ Ready /\ u \in convos
    /\ convos' = convos \ {u}
    /\ IF good
       THEN /\ authenticatedUsers' = authenticatedUsers \cup {u}
            /\ replies' = << <<R("Roger, you're in!")>> >>
       ELSE /\ authenticatedUsers' = authenticatedUsers
            /\ replies' = << <<R("Are you trying to get me fired?")>> >>
    /\ Quiet /\ Hist("event", TRUE, 0)
    /\ UNCHANGED <<listenerID, listeners, transport, netServer, handle, closeCbs, ticks,
                   crashed, closeReq>>

(* --------------------------- specification ----------------------------- *)
Next ==
    \/ OnListening
    \/ OnOpened
    \/ OnBindError
    \/ OnServerClose
    \/ OnResume
    \/ Accept
    \/ \E c \in 0..(MaxConn - 1) : SocketError(c)
    \/ \E c \in 0..(MaxConn - 1) : PeerClose(c)
    \/ \E c \in 0..(MaxConn - 1) : SocketClose(c)
    \/ \E ch \in Channels, u \in Speakers, text \in Texts : Ambient(ch, u, text)
    \/ \E text \in Texts : BroadcastText(text)
    \/ \E u \in Users : Status(u)
    \/ \E u \in Users : EndAll(u)
    \/ \E u \in Users : PauseAll(u)
    \/ \E u \in Users : ResumeAll(u)
    \/ \E u \in Users : CloseServer(u)
    \/ \E u \in Users, bindOk \in BOOLEAN : OpenServer(u, bindOk)
    \/ \E u \in Users : Authenticate(u)
    \/ \E u \in Users, good \in BOOLEAN : Password(u, good)

Spec == Init /\ [][Next]_vars

(* ------------------------------ properties ----------------------------- *)
\* the lines a socket is written when it receives the whole message
Terminated(lines) == [i \in 1..Len(lines) |-> lines[i] \o <<NL>>]

AnyCommand(u) ==
    \/ Status(u) \/ EndAll(u) \/ PauseAll(u) \/ ResumeAll(u) \/ CloseServer(u)
    \/ \E bindOk \in BOOLEAN : OpenServer(u, bindOk)

\* C1: in every reachable state the keys of `listeners` are exactly the
\* connections accepted and not yet closed or ended.  Read in the way most
\* favourable to the code: a connection counts as closed only once its 'close'
\* listener has run, and as ended while end-all has finished it and its
\* transport is still up.
C1_RegistryIsAcceptedNotClosedNotEnded ==
    Keys = {c \in DOMAIN transport : transport[c] \in {"open", "errored", "finished"}}

\* C2: one broadcast writes all lines of the message, in order and each ended by
\* a line break, to every running connection, and nothing to a paused one.
C2_BroadcastReachesRunningOnly ==
    lastOp.name = "Broadcast" =>
        /\ DOMAIN writes = Keys
        /\ \A c \in Keys :
              writes[c] = IF listeners[c] = "running"
                          THEN Terminated(send(payload)) ELSE <<>>

C2_Witness ==
    /\ lastOp.name = "Broadcast"
    /\ \E c, d \in Keys :
          /\ listeners[c] = "running" /\ Len(writes[c]) = 2
          /\ listeners[d] = "paused" /\ writes[d] = <<>>

\* C3: a broadcast that is the next event after pause-all writes to no
\* connection; a broadcast that is the next event after resume-all writes the
\* whole message to every registered connection.
C3_PauseAllSilencesResumeAllRestores ==
    lastOp.name = "Broadcast" =>
        /\ prevOp.name = "PauseAll" => \A c \in Keys : writes[c] = <<>>
        /\ prevOp.name = "ResumeAll" =>
              \A c \in Keys : writes[c] = Terminated(send(payload))

C3_Witness ==
    /\ lastOp.name = "Broadcast"
    /\ prevOp.name = "ResumeAll" /\ prevOp.n = Cardinality(Keys) /\ prevOp.n >= 2
    /\ \A c \in Keys : Len(writes[c]) = 2

ClosedReply == <<R("Server Successfully closed")>>

\* close-server ran for an authenticated user
CloseServerRuns == \E u \in Users : isAuthenticated(u) /\ CloseServer(u)

\* open-server ran for an authenticated user
OpenServerRuns == \E u \in Users, bindOk \in BOOLEAN : isAuthenticated(u) /\ OpenServer(u, bindOk)

\* a close-server in state listening with a connection registered sets the
\* state to closing within the command
C4_ClosingAtOnce ==
    (CloseServerRuns /\ netServer.status = "listening" /\ Keys # {})
        => netServer'.status = "closing"

\* the state leaves closing only to closed, in the shutdown callback, which
\* replies "Server Successfully closed" once
C4_ClosedOnce ==
    (netServer.status = "closing" /\ netServer'.status # "closing")
        => /\ netServer'.status = "closed"
           /\ OnServerClose
           /\ replies' = Append(replies, ClosedReply)

\* C4: close-server in state listening with at least one connection registered
\* makes the state closing at once; the state is closing at every later status
\* query while any connection is still registered; it then becomes closed
\* once, the shutdown callback replying once.
C4_ClosingWhileAnyRegistered ==
    /\ [][C4_ClosingAtOnce /\ C4_ClosedOnce]_vars
    /\ []((closeReq = "some" /\ Keys # {}) => netServer.status = "closing")

\* C4 as amended: ... the state is closing at every later status query while
\* the transport of any connection is still up (a connection whose transport
\* is torn down stays registered until its 'close' listener runs, and by then
\* the state may be closed already) ...
C4_ClosingWhileAnyTransportUp ==
    /\ [][C4_ClosingAtOnce /\ C4_ClosedOnce]_vars
    /\ []((closeReq = "some" /\ Connections(transport) > 0) => netServer.status = "closing")

C4_Witness ==
    /\ closeReq = "some" /\ netServer.status = "closed"
    /\ lastOp.name = "event" /\ replies = <<ClosedReply>>
    /\ \E c \in Keys : transport[c] = "finished"

\* C5: close-server in state listening with no connection registered: the
\* state is never closing, and the only step from the state the command
\* leaves is the shutdown callback, which makes it closed, so that no command
\* and no connection event sees the state in between.
C5_CloseWithNoConnectionIsAtomic ==
    /\ [](closeReq = "zero" =>
            \/ netServer.status = "closed"
            \/ /\ netServer.status = "listening"
               /\ ticks # <<>> /\ Head(ticks).type = "serverClose")
    /\ [][(closeReq = "zero" /\ netServer.status = "listening")
            => (OnServerClose /\ netServer'.status = "closed")]_vars

C5_Witness ==
    /\ closeReq = "zero" /\ netServer.status = "closed"
    /\ lastOp.name = "CloseServer" /\ replies = <<ClosedReply>>

\* C6: of two end-all commands in a row the second reports 0 connections
\* terminated.
C6_SecondEndAllReportsZero ==
    (lastOp.name = "EndAll" /\ lastOp.ok /\ prevOp.name = "EndAll")
        => /\ lastOp.n = 0
           /\ replies = <<<<RN("Clients Terminated: ", 0)>>>>

\* the transport of a socket that end-all finished goes down once the peer has
\* closed its side
EndedSocketCloses == \E c \in DOMAIN transport : transport[c] = "ended" /\ PeerClose(c)

DrainTicks == OnListening \/ OnOpened \/ OnBindError \/ OnServerClose \/ OnResume

\* the event loop runs the deferred callbacks; the peer of an ended socket
\* closes its side, and that event stays pending while callbacks drain, so it
\* is dispatched once the loop polls again
FairSpec == Spec /\ WF_vars(DrainTicks) /\ SF_vars(EndedSocketCloses)

\* C7: in state closing, end-all replies with the number of registered
\* connections (at least one), and the state then becomes closed.
C7_EndAllLeadsToClosed ==
    /\ [][\A u \in Users :
            (isAuthenticated(u) /\ EndAll(u) /\ netServer.status = "closing")
                => /\ Keys # {}
                   /\ replies' = <<<<RN("Clients Terminated: ", Cardinality(Keys))>>>>]_vars
    /\ (netServer.status = "closing" /\ lastOp.name = "EndAll" /\ lastOp.ok)
           ~> (netServer.status = "closed")

C7_Witness ==
    /\ netServer.status = "closing" /\ lastOp.name = "EndAll" /\ lastOp.ok
    /\ lastOp.n = 2 /\ \A c \in Keys : transport[c] = "ended"

\* C8: open-server when the state is not closed and close-server when it is
\* not listening change neither the server state, the listener nor the
\* registry, and reply with the text of the state.
C8_RefusedOpenAndCloseAreNoOps ==
    [][/\ (OpenServerRuns /\ netServer.status # "closed")
            => /\ UNCHANGED <<netServer, handle, closeCbs, ticks, listeners, transport, listenerID>>
               /\ netServer.status = "listening"
                    => replies' = << <<R("Can't open an open Server")>> >>
               /\ netServer.status = "closing"
                    => replies' =
                        << <<R("Server is currently closing.  It will close after all listeners disconnect.")>>,
                           <<R("Hint: you can tell me to 'end-all' to close all the listeners and then 'open-server' to open properly")>> >>
               /\ netServer.status \in {"listening", "closing"}
       /\ (CloseServerRuns /\ netServer.status # "listening")
            => /\ UNCHANGED <<netServer, handle, closeCbs, ticks, listeners, transport, listenerID>>
               /\ netServer.status = "closed"
                    => replies' = << <<R("Can't close a closed Server")>> >>
               /\ netServer.status = "closing"
                    => replies' =
                        << <<R("Server is already closing.  It will close after all listeners disconnect.")>>,
                           <<R("Hint: you can tell me to 'end-all' to close all the listeners")>> >>
               /\ netServer.status \in {"closed", "closing"}]_vars

C8_Witness ==
    /\ lastOp.name = "OpenServer" /\ lastOp.ok /\ netServer.status = "closing"
    /\ Keys # {} /\ handle = "none" /\ Len(replies) = 2

\* C9: from an accepted close-server until an open-server has succeeded no
\* connection is accepted; the connections registered stay registered until
\* their own 'close' event, and a broadcast still writes every line to each
\* running one.
C9_NoAcceptAfterCloseRequest ==
    [][/\ listenerID' # listenerID
            => (closeReq = "none" /\ netServer.status = "listening")
       /\ closeReq # "none"
            => /\ Keys' \subseteq Keys
               /\ \A c \in Keys \ Keys' : SocketClose(c)
               /\ lastOp'.name = "Broadcast"
                    => \A c \in Keys :
                          listeners[c] = "running" => writes'[c] = Terminated(send(payload'))]_vars

C9_Witness ==
    /\ closeReq = "some" /\ netServer.status = "closing" /\ listenerID < MaxConn
    /\ lastOp.name = "Broadcast"
    /\ \E c \in Keys : Len(writes[c]) = 2

\* C10: for a user who is not authenticated, status, end-all, pause-all,
\* resume-all, close-server and open-server only reply with the refusal: the
\* registry, the connections and the server are unchanged.
C10_UnauthenticatedCommandsAreRefused ==
    [][\A u \in Users :
          (~isAuthenticated(u) /\ AnyCommand(u))
              => /\ replies' = <<<<NotAuthenticatedMsg>>>>
                 /\ UNCHANGED <<listeners, transport, netServer, handle, closeCbs,
                                ticks, listenerID, authenticatedUsers>>]_vars

C10_Witness ==
    /\ lastOp.name = "EndAll" /\ ~lastOp.ok
    /\ authenticatedUsers \cap Users = {"u"}
    /\ \E c \in Keys : transport[c] = "open" /\ listeners[c] = "running"
    /\ replies = <<<<NotAuthenticatedMsg>>>>

\* pause-all ran for an authenticated user
PauseAllRuns == \E u \in Users : isAuthenticated(u) /\ PauseAll(u)

\* C11: pause-all makes every running connection paused, leaves the others,
\* and the number in its reply "Clients Paused: <n>" is the number of
\* connections that were running right before the command.
C11_PauseAllCountsThoseItPaused ==
    [][PauseAllRuns =>
          /\ Keys' = Keys
          /\ \A c \in Keys :
                listeners'[c] = IF listeners[c] = "running" THEN "paused" ELSE listeners[c]
          /\ replies' = <<<<RN("Clients Paused: ",
                              Cardinality({c \in Keys : listeners[c] = "running"}))>>>>]_vars

\* C12: no command and no connection event is fatal: in every reachable
\* state the process is alive, no exception was left uncaught.
C12_NothingIsFatal == crashed = FALSE

\* C13: a connection that is paused is written nothing by a broadcast, and
\* nothing is written to it outside a broadcast, in particular not when it
\* resumes: whatever a connection is written is the whole message of the
\* broadcast under way, so a resumed connection gets the broadcasts issued
\* after its resume and none of those it missed.
C13_NoCatchUpAfterResume ==
    [][/\ \A c \in DOMAIN writes' :
             /\ (c \in Keys /\ listeners[c] = "paused") => writes'[c] = <<>>
             /\ writes'[c] # <<>> =>
                   /\ lastOp'.name = "Broadcast"
                   /\ writes'[c] = Terminated(send(payload'))
       /\ OnResume => writes' = NoWrites]_vars

C13_Witness ==
    /\ lastOp.name = "Broadcast" /\ payload.text = <<"a", NL, "b">>
    /\ \E c \in missed \cap Keys :
          /\ listeners[c] = "running"
          /\ writes[c] = Terminated(send(payload)) /\ Len(writes[c]) = 2

\* the pieces joined again, a line break between two neighbours
RECURSIVE Joined(_)
Joined(pieces) ==
    IF Len(pieces) = 0 THEN <<>>
    ELSE IF Len(pieces) = 1 THEN pieces[1]
    ELSE pieces[1] \o <<NL>> \o Joined(Tail(pieces))

\* what is written for one line of a structured message: the channel, a
\* comma, the user, a comma, a piece of the text free of line breaks, and a
\* line break
IsStructuredLine(w, channel, user) ==
    /\ Len(w) >= 5
    /\ SubSeq(w, 1, 4) = <<channel, ",", user, ",">>
    /\ w[Len(w)] = NL
    /\ \A i \in 5..(Len(w) - 1) : w[i] # NL

\* C14: for a structured message every receiving connection is written one
\* line "<channel>,<user>,<line>" plus a line break per line of the text, in
\* the order of the text: the pieces hold no line break and, joined by line
\* breaks, give the text back.
C14_StructuredLinesFollowTheText ==
    (lastOp.name = "Broadcast" /\ payload.kind = "object") =>
        \A c \in Keys :
            listeners[c] = "running" =>
                /\ \A i \in 1..Len(writes[c]) :
                      IsStructuredLine(writes[c][i], payload.channel, payload.user)
                /\ Joined([i \in 1..Len(writes[c]) |->
                              SubSeq(writes[c][i], 5, Len(writes[c][i]) - 1)])
                      = payload.text
                /\ Len(writes[c]) >= 1

C14_Witness ==
    /\ lastOp.name = "Broadcast" /\ payload.kind = "object"
    /\ payload.text = <<"a", NL, "b">>
    /\ \E c \in Keys :
          /\ listeners[c] = "running"
          /\ writes[c] = << <<"c", ",", "v", ",", "a", NL>>,
                            <<"c", ",", "v", ",", "b", NL>> >>

\* C15: the state becomes closing only from listening (in close-server); it
\* leaves closing only to closed and only in the shutdown callback; no
\* command of the gateway takes the state out of closing.
C15_ClosingOnlyFromListeningOnlyToClosed ==
    [][/\ (netServer.status # "closing" /\ netServer'.status = "closing")
            => (netServer.status = "listening" /\ CloseServerRuns)
       /\ (netServer.status = "closing" /\ netServer'.status # "closing")
            => (netServer'.status = "closed" /\ OnServerClose)
       /\ (netServer.status = "closing" /\ \E u \in Users : AnyCommand(u))
            => netServer'.status = "closing"]_vars

C15_Witness ==
    /\ netServer.status = "closing" /\ lastOp.name = "CloseServer" /\ lastOp.ok
    /\ replies = << <<R("Server is already closing.  It will close after all listeners disconnect.")>>,
                    <<R("Hint: you can tell me to 'end-all' to close all the listeners")>> >>

\* C16: no key of `listeners` belongs to a connection whose transport has
\* signalled an error or a close, and a broadcast writes nothing to a
\* connection that has errored.
C16_NoErroredConnectionRegistered ==
    /\ \A c \in Keys : transport[c] \notin {"errored", "closed"}
    /\ lastOp.name = "Broadcast" =>
          \A c \in DOMAIN writes : transport[c] = "errored" => writes[c] = <<>>

\* listeners[user].write(line+'\n') fails when the socket was ended or its
\* transport is torn down; it does not throw, the socket reports the failure
writeFails(phase) == phase # "open"

\* C17: when a write of a broadcast fails on one connection, every other
\* running connection is still written the whole message, and the failing
\* connection is no longer registered once the broadcast is done.
C17_FailedWriteIsIsolatedAndUnregisters ==
    lastOp.name = "Broadcast" =>
        \A c \in DOMAIN writes :
            /\ (listeners[c] = "running" /\ ~writeFails(transport[c]))
                  => writes[c] = Terminated(send(payload))
            /\ (writes[c] # <<>> /\ writeFails(transport[c])) => c \notin Keys

\* C18: every accepted connection gets an id greater than the id of every
\* connection accepted before it, registered now or gone, so that no id is
\* used twice; the ids handed out so far are 0 .. listenerID - 1.
C18_IdsAreFreshAndIncreasing ==
    /\ [](DOMAIN transport = 0..(listenerID - 1) /\ Keys \subseteq DOMAIN transport)
    /\ [][Accept =>
             /\ listenerID \notin DOMAIN transport
             /\ \A d \in DOMAIN transport : listenerID > d
             /\ Keys' = Keys \cup {listenerID} /\ listenerID \notin Keys
             /\ listenerID' > listenerID]_vars

C18_Witness ==
    /\ lastOp.name = "event" /\ listenerID = 2
    /\ transport[0] = "closed" /\ 0 \notin Keys
    /\ 1 \in Keys /\ transport[1] = "open"
    /\ netServer.status = "listening" /\ closeReq = "none"

\* C19: a connection that disconnects is logged once, by its cause: "has
\* disconnected abruptly" at a transport error and nothing more at the close
\* that follows, "has disconnected gracefully" at a clean close.
C19_OneDisconnectLogByCause ==
    [][\A c \in DOMAIN transport :
          /\ SocketError(c) => disconnectLog' = Disconnect(c, "abruptly")
          /\ (SocketClose(c) /\ transport[c] = "finished")
                => disconnectLog' = Disconnect(c, "gracefully")
          /\ (SocketClose(c) /\ transport[c] = "errored")
                => disconnectLog' = NoDisconnect]_vars

StatusValues == {"listening", "closing", "closed"}

\* no reply so far is "Server in a weird state: ...", and every "Server
\* Status: ..." line reports listening, closing or closed
NoWeirdReply ==
    \A i \in 1..Len(replies) : \A j \in 1..Len(replies[i]) :
        /\ replies[i][j].text # "Server in a weird state: "
        /\ replies[i][j].text = "Server Status: " => replies[i][j].str \in StatusValues

\* C20: in every reachable state, the start of the process included, the
\* server status is listening, closing or closed; no reply is "Server in a
\* weird state", and status reports none but these three values.
C20_StatusIsOneOfThree ==
    /\ netServer.status \in StatusValues
    /\ NoWeirdReply

\* C20 as amended: the status is listening, closing or closed in every state
\* but those before the first listen callback, where it is not set yet and no
\* command or connection event is handled; no reply is "Server in a weird
\* state", and status reports none but these three values.
C20_StatusIsOneOfThreeOnceListening ==
    /\ \/ netServer.status \in StatusValues
       \/ /\ ticks # <<>> /\ Head(ticks).type = "listening"
          /\ lastOp = OtherOp /\ replies = <<>> /\ listenerID = 0
    /\ NoWeirdReply

C20_Witness ==
    /\ lastOp.name = "OpenServer" /\ lastOp.ok
    /\ ticks # <<>> /\ Head(ticks).type = "opened"
    /\ netServer.status = "closed" /\ handle = "bound"

====
